---- MODULE Spec2Model ----
(***************************************************************************)
(* Model of process-upload-r2.py: the UploadTracker ledger (SQLite table    *)
(* behind one Lock) and the ImageProcessor pipeline (a thread pool running  *)
(* process_single_image per candidate file, process_images aggregating the  *)
(* results and issuing the deferred batch ledger write).                    *)
(*                                                                         *)
(* File names are sequences of tokens ("pregen_", digit groups, "-", "_",   *)
(* other text, and the suffixes ".png" / ".jpg"), so that the filename      *)
(* parsing of process_filename_for_upload is computed, not assumed.         *)
(*                                                                         *)
(* Environment outcomes that the code handles are nondeterministic: the     *)
(* image conversion may fail, the remote put may fail, the batch ledger     *)
(* write may raise.  File-system exceptions arise only where the code's     *)
(* own interleavings produce them (a path removed between exists() and      *)
(* unlink(), or before it is opened).                                       *)
(***************************************************************************)
EXTENDS Integers, Sequences, FiniteSets, TLC

\* ---------------------------------------------------------------- bounds
MaxFiles == 2      \* source files present in the scan directory at a run start
MaxRuns == 2       \* invocations of main() on the same ledger and directory
MaxWorkers == 2    \* largest --max-workers value tried
MaxThreads == 2    \* caller threads of the UploadTracker harness
MaxCalls == 2      \* ledger calls issued by the harness threads in total
MaxStem == 3       \* tokens in the stem of a file name given to the identity derivation

\* ------------------------------------------------------------ file names
DigitTokens == {"1", "2", "5", "00001", "00002"}
SuffixTokens == {".png", ".jpg"}

PngA1 == <<"pregen_", "1", "-", "5", "_", "00001", "_", ".png">>
PngA2 == <<"pregen_", "1", "-", "5", "_", "00002", "_", ".png">>
PngPhoto == <<"photo", ".png">>

\* every source file the environment may drop into the scan directory
Names == {PngA1, PngA2, PngPhoto}

\* Path.stem: the name without its last suffix
Stem(name) ==
    IF Len(name) > 1 /\ name[Len(name)] \in SuffixTokens
    THEN SubSeq(name, 1, Len(name) - 1)
    ELSE name

AllDigits(s, a, b) == a <= b /\ \A k \in a..b : s[k] \in DigitTokens

\* the positions <<i, j>> of "-" and of the "_" after the seed when the stem
\* matches ^pregen_(\d+)-(\d+)_\d+_$
PregenSplits(stem) ==
    {ij \in (1..Len(stem)) \X (1..Len(stem)) :
        /\ stem[1] = "pregen_"
        /\ stem[ij[1]] = "-"
        /\ stem[ij[2]] = "_"
        /\ stem[Len(stem)] = "_"
        /\ AllDigits(stem, 2, ij[1] - 1)
        /\ AllDigits(stem, ij[1] + 1, ij[2] - 1)
        /\ AllDigits(stem, ij[2] + 1, Len(stem) - 1)}

\* process_filename_for_upload: <<processed_filename, metadata>>
process_filename_for_upload(name) ==
    LET stem == Stem(name)
        splits == PregenSplits(stem)
    IN  IF splits # {}
        THEN LET ij == CHOOSE x \in splits : TRUE
             IN  [filename |-> SubSeq(stem, 2, ij[1] - 1) \o <<".jpg">>,
                  metadata |-> <<<<"seed", SubSeq(stem, ij[1] + 1, ij[2] - 1)>>>>]
        ELSE [filename |-> stem \o <<".jpg">>, metadata |-> <<>>]

\* str.replace('.jpg', ''): every occurrence is removed
RECURSIVE RemoveJpg(_)
RemoveJpg(s) ==
    IF s = <<>> THEN <<>>
    ELSE IF Head(s) = ".jpg" THEN RemoveJpg(Tail(s))
    ELSE <<Head(s)>> \o RemoveJpg(Tail(s))

\* card_id = processed_filename.replace('.jpg', '')
CardIdOf(name) == RemoveJpg(process_filename_for_upload(name).filename)

\* a conversion that writes its output over the source file
JpgOf_SourcePath(name) == name

\* jpg_path = png_path.parent / processed_filename; also the remote object key
JpgOf(name) == process_filename_for_upload(name).filename

\* naming_pattern.match(file_path.name) for the constructor default .*\.png$
NamingPatternMatches(name) == Len(name) >= 1 /\ name[Len(name)] = ".png"

\* find_matching_images
find_matching_images(d) == {f \in d : NamingPatternMatches(f)}

CardIds == {CardIdOf(n) : n \in Names}

\* re.match(pattern, filename) found a match
Matched(name) == PregenSplits(Stem(name)) # {}

\* what the pipeline derives from a file name: the id under which the ledger
\* row is written and the key under which the object is put
Identity(name) ==
    [name |-> name, card_id |-> CardIdOf(name), object_key |-> JpgOf(name),
     matched |-> Matched(name)]

NoDerived == [name |-> <<>>, card_id |-> <<>>, object_key |-> <<>>, matched |-> FALSE]


\* ----------------------------------------------------------------- state
VARIABLES
    disk,           \* names of the files that exist in the scan directory
    ledger,         \* rows of table upload_status
    db_lock,        \* holder of UploadTracker.db_lock, or NoHolder
    clock,          \* datetime.now() of the last committed write, as a logical clock
    tcall,          \* per thread: its current UploadTracker call
    remote,         \* object keys stored in the R2 bucket
    run,            \* invocations of main() started so far
    config,         \* command-line options of the current invocation
    mpc,            \* position of the main thread
    item,           \* per candidate file: worker position, result dict, and
                    \* whether an unlink() of its cleanup_files raised
    results,        \* process_images' aggregate
    successfully_uploaded_cards,
    exit_code,      \* main()'s return value, NotExited until it returns
    ledger_at_start,\* history: the ledger when the current invocation began
    remote_at_start,\* history: the bucket when the current invocation began
    batch_log,      \* history: argument of each batch_mark_uploaded call of this run
    fs_ops,         \* history: <<worker, path>> for each path a worker wrote or deleted
    batch_write,    \* history: how this run's batch_mark_uploaded ended
    marked_before,  \* history: card ids whose batch write committed in this or an earlier run
    calls,          \* harness: ledger calls issued so far
    derived         \* naming: the identity last derived from a file name

vars == <<disk, ledger, db_lock, clock, tcall, remote, run, config, mpc, item,
          results, successfully_uploaded_cards, exit_code, ledger_at_start,
          remote_at_start, batch_log, fs_ops, batch_write, marked_before, calls,
          derived>>

pipelineVars == <<disk, remote, run, config, mpc, item, results,
                  successfully_uploaded_cards, exit_code, ledger_at_start,
                  remote_at_start, batch_log, fs_ops, batch_write, marked_before,
                  derived>>

NoHolder == <<>>
Main == <<"main">>
HThreads == {<<"caller", ToString(k)>> : k \in 1..MaxThreads}
Threads == Names \cup {Main} \cup HThreads
NotExited == -1

\* ------------------------------------------------------- UploadTracker
UploadedRow(card_id, timestamp) ==
    [card_id |-> card_id, status |-> "uploaded", timestamp |-> timestamp]

\* the query with the wrong status literal
IsUploadedQuery_WrongStatus(l, card_id) ==
    \E r \in l : r.card_id = card_id /\ r.status = "done"

\* SELECT status FROM upload_status WHERE card_id = ? AND status = 'uploaded'
IsUploadedQuery(l, card_id) ==
    \E r \in l : r.card_id = card_id /\ r.status = "uploaded"

\* a plain INSERT into a table without the primary key
InsertOrReplace_KeepsOld(l, row) == l \cup {row}

\* INSERT OR REPLACE of one row: card_id is the primary key
InsertOrReplace(l, row) == {r \in l : r.card_id # row.card_id} \cup {row}

\* execute instead of executemany: only the first row is written
ExecuteMany_FirstOnly(l, card_ids, timestamp) ==
    IF card_ids = <<>> THEN l
    ELSE InsertOrReplace(l, UploadedRow(Head(card_ids), timestamp))

\* executemany of INSERT OR REPLACE over the rows built from card_ids
RECURSIVE ExecuteMany(_, _, _)
ExecuteMany(l, card_ids, timestamp) ==
    IF card_ids = <<>> THEN l
    ELSE ExecuteMany(InsertOrReplace(l, UploadedRow(Head(card_ids), timestamp)),
                     Tail(card_ids), timestamp)

SeqRange(s) == {s[k] : k \in 1..Len(s)}

\* SELECT card_id ... WHERE card_id IN (...) AND status = 'uploaded'
BatchCheckQuery(l, card_ids) ==
    {r.card_id : r \in {x \in l : x.card_id \in SeqRange(card_ids)
                                   /\ x.status = "uploaded"}}

IdleCall == [op |-> "none", card_id |-> <<>>, card_ids |-> <<>>, st |-> "idle",
             found |-> FALSE, found_set |-> {}, raised |-> FALSE]

\* the two batch operations return before taking the lock on an empty list
ReturnsEarly(op, card_ids) ==
    op \in {"batch_mark_uploaded", "batch_check_uploaded"} /\ card_ids = <<>>

\* a call as it stands right after the caller enters the method
NewCall(op, card_id, card_ids) ==
    [IdleCall EXCEPT !.op = op, !.card_id = card_id, !.card_ids = card_ids,
                     !.st = IF ReturnsEarly(op, card_ids) THEN "returned" ELSE "wait"]

\* a lock that is never granted
CanAcquire_Never(holder) == FALSE

\* a method body that is not wrapped in the lock
CanAcquire_NoLock(holder) == TRUE

\* with self.db_lock: the lock is taken only when nobody holds it
CanAcquire(holder) == holder = NoHolder

LockAcquire(t) ==
    /\ tcall[t].st = "wait"
    /\ CanAcquire(db_lock)
    /\ db_lock' = t
    /\ tcall' = [tcall EXCEPT ![t].st = "in_store"]
    /\ UNCHANGED <<ledger, clock, calls>>
    /\ UNCHANGED pipelineVars

IsWrite(op) == op \in {"mark_uploaded", "batch_mark_uploaded"}

\* the write without conn.commit(): closing the connection discards it
LedgerAfter_NoCommit(l, c, timestamp) == l

\* the ledger after the statement of a call commits
LedgerAfter(l, c, timestamp) ==
    IF c.op = "mark_uploaded"
    THEN InsertOrReplace(l, UploadedRow(c.card_id, timestamp))
    ELSE IF c.op = "batch_mark_uploaded"
    THEN ExecuteMany(l, c.card_ids, timestamp)
    ELSE l

\* the body of the with-blocks: the statement runs on the connection, the
\* transaction commits (or the statement raises and nothing is written), and
\* leaving the block releases the lock
StoreAccess(t) ==
    /\ tcall[t].st = "in_store"
    /\ \E ok \in BOOLEAN :
        /\ (~ok) => IsWrite(tcall[t].op)
        /\ ledger' = IF ok THEN LedgerAfter(ledger, tcall[t], clock + 1) ELSE ledger
        /\ clock' = IF IsWrite(tcall[t].op) /\ ok THEN clock + 1 ELSE clock
        /\ tcall' = [tcall EXCEPT
                ![t].st = "returned",
                ![t].raised = ~ok,
                ![t].found = IsUploadedQuery(ledger, tcall[t].card_id)
                             /\ tcall[t].op = "is_uploaded",
                ![t].found_set = IF tcall[t].op = "batch_check_uploaded"
                                 THEN BatchCheckQuery(ledger, tcall[t].card_ids)
                                 ELSE {}]
    /\ db_lock' = IF db_lock = t THEN NoHolder ELSE db_lock
    /\ UNCHANGED calls
    /\ UNCHANGED pipelineVars

\* ------------------------------------------------------------- pipeline
ZeroResults == [processed |-> 0, converted |-> 0, uploaded |-> 0, cleaned |-> 0,
                errors |-> <<>>]

NoItem == [pc |-> "none", processed |-> 0, converted |-> 0, uploaded |-> 0,
           cleaned |-> 0, errors |-> <<>>, card_id |-> <<>>, put |-> "none",
           cleanup_raised |-> FALSE]

PendingItem == [NoItem EXCEPT !.pc = "pending"]

DefaultConfig == [dry_run |-> FALSE, cleanup_on_success |-> TRUE,
                  keep_converted |-> FALSE, max_workers |-> 1]

Configs == [dry_run : BOOLEAN, cleanup_on_success : BOOLEAN,
            keep_converted : BOOLEAN, max_workers : 1..MaxWorkers]

\* ledgers left by earlier invocations: rows written before the clock starts
InitialLedgers == {{UploadedRow(c, 0) : c \in S} : S \in SUBSET CardIds}

Init ==
    /\ disk = {}
    /\ ledger \in InitialLedgers
    /\ db_lock = NoHolder
    /\ clock = 0
    /\ tcall = [t \in Threads |-> IdleCall]
    /\ remote = {}
    /\ run = 0
    /\ config = DefaultConfig
    /\ mpc = "idle"
    /\ item = [n \in Names |-> NoItem]
    /\ results = ZeroResults
    /\ successfully_uploaded_cards = <<>>
    /\ exit_code = NotExited
    /\ ledger_at_start = ledger
    /\ remote_at_start = {}
    /\ batch_log = <<>>
    /\ fs_ops = {}
    /\ batch_write = "none"
    /\ marked_before = {}
    /\ calls = 0
    /\ derived = NoDerived


\* self.s3_client: main() passes no credentials to the constructor on --dry-run
s3_client(cfg) == ~cfg.dry_run

\* self.tracker: main() always constructs the processor with track_uploads=True
tracker == TRUE

\* worker threads of the pool that are inside process_single_image
Running == {n \in Names : item[n].pc \notin {"none", "pending", "finished", "collected"}}

SetItem(n, rec) == item' = [item EXCEPT ![n] = rec]

\* if not args.dry_run and not all([r2_endpoint, r2_access_key, r2_secret_key])
CredentialsMissing(cfg, credentials) == ~cfg.dry_run /\ ~credentials

\* if not bucket_name
BucketMissing(bucket_name) == ~bucket_name

\* the positions of the main thread after main() has returned
Returned == {"done", "rejected", "script_failed"}

\* the program is invoked when no invocation is running
CanStart == mpc \in {"idle"} \cup Returned /\ run < MaxRuns

\* main() up to the submission of the tasks: the options are parsed, the
\* credentials and the bucket name are validated, the processor is built
\* (boto3.client may raise), the directory is listed once and every matching
\* file becomes a task.  Between invocations the image generator may have
\* added source files (seen by the next invocation that lists the directory).
\* credentials: all three are given; bucket_name: it is not empty.
StartRun(cfg, added, credentials, bucket_name, client_ok) ==
    LET rejected == CredentialsMissing(cfg, credentials) \/ BucketMissing(bucket_name)
        failed == ~rejected /\ ~client_ok
        matching_images == IF rejected \/ failed THEN {}
                           ELSE find_matching_images(disk \cup added)
    IN
    /\ CanStart
    /\ (~client_ok) => (s3_client(cfg) /\ ~rejected)
    /\ (rejected \/ failed) => added = {}
    /\ added \cap disk = {}
    /\ Cardinality(find_matching_images(disk \cup added)) <= MaxFiles
    /\ disk' = disk \cup added
    /\ item' = [n \in Names |-> IF n \in matching_images THEN PendingItem ELSE NoItem]
    /\ mpc' = IF rejected THEN "rejected"
              ELSE IF failed THEN "script_failed"
              ELSE IF matching_images = {} THEN "done" ELSE "collect"
    /\ exit_code' = IF rejected \/ failed THEN 1
                    ELSE IF matching_images = {} THEN 0 ELSE NotExited
    /\ run' = run + 1
    /\ config' = cfg
    /\ results' = ZeroResults
    /\ successfully_uploaded_cards' = <<>>
    /\ ledger_at_start' = ledger
    /\ remote_at_start' = remote
    /\ batch_log' = <<>>
    /\ fs_ops' = {}
    /\ batch_write' = "none"
    /\ UNCHANGED <<ledger, db_lock, clock, tcall, remote, calls, marked_before, derived>>

\* a free worker thread takes the task: the identity is derived and
\* tracker.is_uploaded(card_id) is entered
Begin(n) ==
    /\ mpc = "collect"
    /\ item[n].pc = "pending"
    /\ Cardinality(Running) < config.max_workers
    /\ IF tracker
       THEN /\ SetItem(n, [item[n] EXCEPT !.pc = "is_uploaded", !.card_id = CardIdOf(n)])
            /\ tcall' = [tcall EXCEPT ![n] = NewCall("is_uploaded", CardIdOf(n), <<>>)]
       ELSE /\ SetItem(n, [item[n] EXCEPT !.pc = "convert", !.card_id = CardIdOf(n),
                                          !.processed = 1])
            /\ UNCHANGED tcall
    /\ UNCHANGED <<disk, ledger, db_lock, clock, remote, run, config, mpc, results,
                   successfully_uploaded_cards, exit_code, ledger_at_start,
                   remote_at_start, batch_log, fs_ops, calls, batch_write,
                   marked_before, derived>>

\* is_uploaded has returned: skip the file, or count it as processed
AfterCheck(n) ==
    /\ item[n].pc = "is_uploaded"
    /\ tcall[n].st = "returned"
    /\ IF tcall[n].found
       THEN SetItem(n, [item[n] EXCEPT !.pc = "finished"])
       ELSE SetItem(n, [item[n] EXCEPT !.pc = "convert", !.processed = 1])
    /\ tcall' = [tcall EXCEPT ![n] = IdleCall]
    /\ UNCHANGED <<disk, ledger, db_lock, clock, remote, run, config, mpc, results,
                   successfully_uploaded_cards, exit_code, ledger_at_start,
                   remote_at_start, batch_log, fs_ops, calls, batch_write,
                   marked_before, derived>>

\* convert_png_to_jpg: the source is decoded and the JPG written beside it,
\* or any exception makes it return None
Convert(n) ==
    /\ item[n].pc = "convert"
    /\ \E ok \in BOOLEAN :
        /\ ok => n \in disk
        /\ IF ok
           THEN /\ disk' = disk \cup {JpgOf(n)}
                /\ fs_ops' = fs_ops \cup {<<n, JpgOf(n)>>}
                /\ SetItem(n, [item[n] EXCEPT !.pc = "upload", !.converted = 1])
           ELSE /\ SetItem(n, [item[n] EXCEPT !.pc = "finished",
                        !.errors = Append(@, "Conversion failed")])
                /\ UNCHANGED <<disk, fs_ops>>
    /\ UNCHANGED <<ledger, db_lock, clock, tcall, remote, run, config, mpc, results,
                   successfully_uploaded_cards, exit_code, ledger_at_start,
                   remote_at_start, batch_log, calls, batch_write, marked_before,
                   derived>>

\* where process_single_image goes once the item counts as uploaded
AfterUploaded(cfg) == IF cfg.cleanup_on_success THEN "cleanup" ELSE "finished"

\* the upload step: upload_to_r2 reads the JPG and puts it under the
\* processed filename, or, without a client, the item counts as a dry run
Upload(n) ==
    /\ item[n].pc = "upload"
    /\ IF s3_client(config)
       THEN \E put_ok \in BOOLEAN :
            IF JpgOf(n) \notin disk
            THEN \* open() raises: upload_to_r2 returns False before any put
                 /\ SetItem(n, [item[n] EXCEPT !.pc = "upload_failed",
                         !.errors = Append(@, "Upload failed")])
                 /\ UNCHANGED remote
            ELSE IF put_ok
            THEN /\ remote' = remote \cup {JpgOf(n)}
                 /\ SetItem(n, [item[n] EXCEPT !.pc = AfterUploaded(config),
                         !.uploaded = 1, !.put = "ok"])
            ELSE /\ SetItem(n, [item[n] EXCEPT !.pc = "upload_failed",
                         !.errors = Append(@, "Upload failed"), !.put = "failed"])
                 /\ UNCHANGED remote
       ELSE /\ SetItem(n, [item[n] EXCEPT !.pc = AfterUploaded(config), !.uploaded = 1])
            /\ UNCHANGED remote
    /\ UNCHANGED <<disk, ledger, db_lock, clock, tcall, run, config, mpc, results,
                   successfully_uploaded_cards, exit_code, ledger_at_start,
                   remote_at_start, batch_log, fs_ops, calls, batch_write,
                   marked_before, derived>>

\* after a failed upload: if jpg_path.exists()
UploadFailedExists(n) ==
    /\ item[n].pc = "upload_failed"
    /\ SetItem(n, [item[n] EXCEPT
            !.pc = IF JpgOf(n) \in disk THEN "upload_failed_unlink" ELSE "finished"])
    /\ UNCHANGED <<disk, ledger, db_lock, clock, tcall, remote, run, config, mpc,
                   results, successfully_uploaded_cards, exit_code, ledger_at_start,
                   remote_at_start, batch_log, fs_ops, calls, batch_write,
                   marked_before, derived>>

\* after a failed upload: jpg_path.unlink(); a FileNotFoundError reaches the
\* except clause of process_single_image
UploadFailedUnlink(n) ==
    /\ item[n].pc = "upload_failed_unlink"
    /\ IF JpgOf(n) \in disk
       THEN /\ disk' = disk \ {JpgOf(n)}
            /\ fs_ops' = fs_ops \cup {<<n, JpgOf(n)>>}
            /\ SetItem(n, [item[n] EXCEPT !.pc = "finished"])
       ELSE /\ SetItem(n, [item[n] EXCEPT !.pc = "finished",
                    !.errors = Append(@, "Error processing")])
            /\ UNCHANGED <<disk, fs_ops>>
    /\ UNCHANGED <<ledger, db_lock, clock, tcall, remote, run, config, mpc, results,
                   successfully_uploaded_cards, exit_code, ledger_at_start,
                   remote_at_start, batch_log, calls, batch_write, marked_before,
                   derived>>

\* a cleanup_files without its try/except: the exception of unlink() reaches
\* the except clause of process_single_image
CleanupOutcome_Escalates(r, raised) ==
    IF raised
    THEN [r EXCEPT !.pc = "finished", !.cleanup_raised = TRUE,
                   !.errors = Append(@, "Error processing")]
    ELSE [r EXCEPT !.pc = "finished", !.cleaned = 1]

\* the item when cleanup_files returns: "except Exception: pass" swallows a
\* raised unlink(), and result['cleaned'] = 1 is set either way
CleanupOutcome(r, raised) ==
    [r EXCEPT !.pc = "finished", !.cleaned = 1, !.cleanup_raised = raised]

\* cleanup_files, first half: the source is removed when it exists, then
\* "not keep_converted and jpg_path.exists()" is evaluated
CleanupSource(n) ==
    /\ item[n].pc = "cleanup"
    /\ disk' = disk \ {n}
    /\ fs_ops' = IF n \in disk THEN fs_ops \cup {<<n, n>>} ELSE fs_ops
    /\ IF ~config.keep_converted /\ JpgOf(n) \in disk
       THEN SetItem(n, [item[n] EXCEPT !.pc = "cleanup_unlink"])
       ELSE SetItem(n, CleanupOutcome(item[n], FALSE))
    /\ UNCHANGED <<ledger, db_lock, clock, tcall, remote, run, config, mpc, results,
                   successfully_uploaded_cards, exit_code, ledger_at_start,
                   remote_at_start, batch_log, calls, batch_write, marked_before,
                   derived>>

\* cleanup_files, second half: jpg_path.unlink(); its exception is swallowed
CleanupConverted(n) ==
    /\ item[n].pc = "cleanup_unlink"
    /\ disk' = disk \ {JpgOf(n)}
    /\ fs_ops' = IF JpgOf(n) \in disk THEN fs_ops \cup {<<n, JpgOf(n)>>} ELSE fs_ops
    /\ SetItem(n, CleanupOutcome(item[n], JpgOf(n) \notin disk))
    /\ UNCHANGED <<ledger, db_lock, clock, tcall, remote, run, config, mpc, results,
                   successfully_uploaded_cards, exit_code, ledger_at_start,
                   remote_at_start, batch_log, calls, batch_write, marked_before,
                   derived>>

\* the condition without the test of the uploaded count
QueuedForLedger_NoUploadedTest(r, cfg) ==
    r.card_id # <<>> /\ tracker /\ s3_client(cfg)

\* the condition without the test of the remote client
QueuedForLedger_NoClientTest(r, cfg) ==
    r.uploaded > 0 /\ r.card_id # <<>> /\ tracker

\* the condition under which a result's card id joins the batch list
QueuedForLedger(r, cfg) ==
    r.uploaded > 0 /\ r.card_id # <<>> /\ tracker /\ s3_client(cfg)

\* an aggregation that adds the processed count only of uploaded items
Aggregate_DropsProcessed(rs, r) ==
    [processed |-> rs.processed + (r.processed * r.uploaded),
     converted |-> rs.converted + r.converted,
     uploaded |-> rs.uploaded + r.uploaded,
     cleaned |-> rs.cleaned + r.cleaned,
     errors |-> rs.errors \o r.errors]

\* results[...] += result[...] and results['errors'].extend(result['errors'])
Aggregate(rs, r) ==
    [processed |-> rs.processed + r.processed,
     converted |-> rs.converted + r.converted,
     uploaded |-> rs.uploaded + r.uploaded,
     cleaned |-> rs.cleaned + r.cleaned,
     errors |-> rs.errors \o r.errors]

\* one iteration of the as_completed loop: a finished future's result is
\* added to the aggregate
Collect(n) ==
    /\ mpc = "collect"
    /\ item[n].pc = "finished"
    /\ results' = Aggregate(results, item[n])
    /\ successfully_uploaded_cards' =
            IF QueuedForLedger(item[n], config)
            THEN Append(successfully_uploaded_cards, item[n].card_id)
            ELSE successfully_uploaded_cards
    /\ SetItem(n, [item[n] EXCEPT !.pc = "collected"])
    /\ UNCHANGED <<disk, ledger, db_lock, clock, tcall, remote, run, config, mpc,
                   exit_code, ledger_at_start, remote_at_start, batch_log, fs_ops,
                   calls, batch_write, marked_before, derived>>

\* an exit code that ignores the error list
ExitCode_AlwaysZero(r) == 0

\* return 0 if not results['errors'] else 1
ExitCode(r) == IF r.errors = <<>> THEN 0 ELSE 1

\* a loop that stops waiting for the workers after the first result
PoolDrained_FirstResult == \E n \in Names : item[n].pc = "collected"

\* the as_completed loop has consumed every future and the executor's
\* with-block has been left
PoolDrained == \A n \in Names : item[n].pc \in {"none", "collected"}

\* the pool has drained: batch_mark_uploaded is called when the list is not
\* empty, otherwise process_images returns and main() prints the summary
Drain ==
    /\ mpc = "collect"
    /\ PoolDrained
    /\ IF successfully_uploaded_cards # <<>> /\ tracker
       THEN /\ tcall' = [tcall EXCEPT ![Main] =
                    NewCall("batch_mark_uploaded", <<>>, successfully_uploaded_cards)]
            /\ batch_log' = Append(batch_log, successfully_uploaded_cards)
            /\ mpc' = "batch"
            /\ UNCHANGED exit_code
       ELSE /\ mpc' = "done"
            /\ exit_code' = ExitCode(results)
            /\ UNCHANGED <<tcall, batch_log>>
    /\ UNCHANGED <<disk, ledger, db_lock, clock, remote, run, config, item, results,
                   successfully_uploaded_cards, ledger_at_start, remote_at_start,
                   fs_ops, calls, batch_write, marked_before, derived>>

\* the handler that reports a raised batch write as well as logging it
AfterBatchWrite_RecordsError(r, raised) ==
    IF raised THEN [r EXCEPT !.errors = Append(@, "Failed to batch update")] ELSE r

\* the try/except around batch_mark_uploaded: both branches only log, the
\* aggregate is returned as it stood
AfterBatchWrite(r, raised) == r

\* batch_mark_uploaded returned or raised: process_images returns and main()
\* prints the summary and exits
Finish ==
    /\ mpc = "batch"
    /\ tcall[Main].st = "returned"
    /\ tcall' = [tcall EXCEPT ![Main] = IdleCall]
    /\ mpc' = "done"
    /\ results' = AfterBatchWrite(results, tcall[Main].raised)
    /\ exit_code' = ExitCode(results')
    /\ batch_write' = IF tcall[Main].raised THEN "raised" ELSE "ok"
    /\ marked_before' = IF tcall[Main].raised THEN marked_before
                        ELSE marked_before \cup SeqRange(tcall[Main].card_ids)
    /\ UNCHANGED <<disk, ledger, db_lock, clock, remote, run, config, item,
                   successfully_uploaded_cards, ledger_at_start, remote_at_start,
                   batch_log, fs_ops, calls, derived>>

PipelineThreads == Names \cup {Main}

Next ==
    \/ /\ CanStart
       /\ \E cfg \in Configs, added \in SUBSET Names,
             credentials \in BOOLEAN, bucket_name \in BOOLEAN, client_ok \in BOOLEAN :
               StartRun(cfg, added, credentials, bucket_name, client_ok)
    \/ \E n \in Names : Begin(n)
    \/ \E t \in PipelineThreads : LockAcquire(t)
    \/ \E t \in PipelineThreads : StoreAccess(t)
    \/ \E n \in Names : AfterCheck(n)
    \/ \E n \in Names : Convert(n)
    \/ \E n \in Names : Upload(n)
    \/ \E n \in Names : UploadFailedExists(n)
    \/ \E n \in Names : UploadFailedUnlink(n)
    \/ \E n \in Names : CleanupSource(n)
    \/ \E n \in Names : CleanupConverted(n)
    \/ \E n \in Names : Collect(n)
    \/ Drain
    \/ Finish

Spec == Init /\ [][Next]_vars

\* a step of a thread of a running invocation (any step but an invocation)
RunStep ==
    \/ \E n \in Names :
        \/ Begin(n) \/ AfterCheck(n) \/ Convert(n) \/ Upload(n)
        \/ UploadFailedExists(n) \/ UploadFailedUnlink(n)
        \/ CleanupSource(n) \/ CleanupConverted(n) \/ Collect(n)
    \/ \E t \in PipelineThreads : LockAcquire(t) \/ StoreAccess(t)
    \/ Drain
    \/ Finish

\* the threads of the pool and the main thread are scheduled: while some
\* thread of the invocation can take a step, one eventually does
FairSpec == Init /\ [][Next]_vars /\ WF_vars(RunStep)


\* ------------------------------------------------ UploadTracker harness
\* Caller threads that invoke any method of one UploadTracker at any time.
\* the card-id lists handed to the batch methods
HLists == {<<>>} \cup {<<c>> : c \in CardIds} \cup {<<c, d>> : c \in CardIds, d \in CardIds}

HCall(t, c) ==
    /\ tcall[t].st = "idle"
    /\ calls < MaxCalls
    /\ calls' = calls + 1
    /\ tcall' = [tcall EXCEPT ![t] = c]
    /\ UNCHANGED <<ledger, db_lock, clock>>
    /\ UNCHANGED pipelineVars

HReturn(t) ==
    /\ tcall[t].st = "returned"
    /\ tcall' = [tcall EXCEPT ![t] = IdleCall]
    /\ UNCHANGED <<ledger, db_lock, clock, calls>>
    /\ UNCHANGED pipelineVars

HCalls ==
    {NewCall(op, c, <<>>) : op \in {"is_uploaded", "mark_uploaded"}, c \in CardIds}
    \cup {NewCall(op, <<>>, l) :
            op \in {"batch_mark_uploaded", "batch_check_uploaded"}, l \in HLists}

TrackerNext ==
    \/ \E t \in HThreads, c \in HCalls : HCall(t, c)
    \/ \E t \in HThreads : LockAcquire(t)
    \/ \E t \in HThreads : StoreAccess(t)
    \/ \E t \in HThreads : HReturn(t)

TrackerSpec == Init /\ [][TrackerNext]_vars


\* ------------------------------------------------ identity derivation
\* The derivation of lines 298-300 applied to any file name that a pattern
\* given with --pattern can select.
StemTokens == {"pregen_", "photo", "1", "_", ".jpg"}

CandidateNames ==
    Names \cup {stem \o <<".png">> :
                  stem \in UNION {[1..k -> StemTokens] : k \in 1..MaxStem}}

\* process_single_image up to result['card_id'] = card_id, with the
\* processed filename that is later passed to upload_to_r2 as the object key
DeriveIdentity(name) ==
    /\ derived' = Identity(name)
    /\ UNCHANGED <<ledger, db_lock, clock, tcall, calls>>
    /\ UNCHANGED <<disk, remote, run, config, mpc, item, results,
                   successfully_uploaded_cards, exit_code, ledger_at_start,
                   remote_at_start, batch_log, fs_ops, batch_write, marked_before>>

NamingNext == \E name \in CandidateNames : DeriveIdentity(name)

NamingSpec == Init /\ [][NamingNext]_vars


\* ----------------------------------------------------------- properties
RunItems == {n \in Names : item[n].pc # "none"}
Terminal(n) == item[n].pc \in {"finished", "collected"}
SameId(n, m) == n # m /\ CardIdOf(n) = CardIdOf(m)

\* the file's id had a row in the ledger when the run began
InLedgerAtStart(n) == \E r \in ledger_at_start : r.card_id = CardIdOf(n)

\* the item did nothing beyond the ledger check: no conversion, no file
\* written or deleted, no remote put, all counters zero, no error
Untouched(n) ==
    /\ item[n].pc \in {"pending", "is_uploaded", "finished", "collected"}
    /\ item[n].put = "none"
    /\ item[n].processed = 0 /\ item[n].converted = 0
    /\ item[n].uploaded = 0 /\ item[n].cleaned = 0
    /\ item[n].errors = <<>>
    /\ \A o \in fs_ops : o[1] # n

\* C1: a candidate whose id has an 'uploaded' row in the ledger before the
\* run starts is skipped: it is never converted, the remote store is never
\* invoked for it, and its outcome has all four counters at 0
C1_AtMostOneUpload ==
    \A n \in RunItems : InLedgerAtStart(n) => Untouched(n)

\* a run with two workers ends having skipped one file and uploaded another
C1_Witness ==
    /\ mpc = "done" /\ config.max_workers = 2 /\ s3_client(config)
    /\ \E n \in RunItems, m \in RunItems :
        /\ InLedgerAtStart(n) /\ item[n].pc = "collected"
        /\ item[m].put = "ok"

\* the in-flight positions of a worker that concluded "not yet uploaded"
PastCheck == {"convert", "upload", "upload_failed", "upload_failed_unlink",
              "cleanup", "cleanup_unlink"}

\* C2: two workers of one batch whose files resolve to the same id never
\* both conclude from the ledger check that the id is not yet uploaded (at
\* most one of them is past the check at a time)
C2_NoDoubleConclusion ==
    \A n \in RunItems, m \in RunItems :
        SameId(n, m) => ~(item[n].pc \in PastCheck /\ item[m].pc \in PastCheck)


\* the items whose remote put returned success in this run
UploadedItems == {n \in RunItems : item[n].put = "ok"}
UploadedIds == {item[n].card_id : n \in UploadedItems}
RowsWritten == ledger \ ledger_at_start

\* C3 as stated: after a real run in which each of the N candidates
\* succeeded through upload, the run has left exactly N rows in the ledger
C3_ExactlyNRows ==
    (/\ mpc = "done" /\ s3_client(config)
     /\ RunItems # {} /\ UploadedItems = RunItems)
    => Cardinality(RowsWritten) = Cardinality(RunItems)

\* C3 amended: after a real run, if the batch write raised no row was
\* written; otherwise the rows written are exactly one row per distinct id
\* of the items that succeeded through upload, and every earlier row of
\* another id is kept
C3_OneRowPerUploadedId ==
    (mpc = "done" /\ s3_client(config)) =>
        IF batch_write = "raised"
        THEN ledger = ledger_at_start
        ELSE /\ RowsWritten = {UploadedRow(c, clock) : c \in UploadedIds}
             /\ Cardinality(RowsWritten) = Cardinality(UploadedIds)
             /\ \A r \in ledger_at_start : r.card_id \notin UploadedIds => r \in ledger

\* two workers upload two files of different ids and both rows are written
C3_Witness ==
    /\ mpc = "done" /\ s3_client(config) /\ config.max_workers = 2
    /\ Cardinality(UploadedItems) = 2
    /\ batch_write = "ok"
    /\ Cardinality(RowsWritten) = 2

C5_UploadFailed ==
    \A n \in RunItems : (Terminal(n) /\ item[n].put = "failed") =>
        /\ item[n].uploaded = 0 /\ item[n].cleaned = 0
        /\ Len(item[n].errors) = 1
        /\ mpc = "done" =>
            /\ exit_code = 1
            /\ JpgOf(n) \notin disk
            /\ \A r \in RowsWritten : r.card_id # item[n].card_id

\* the source had no conversion failure and its remote put did not fail
NoOwnFault(n) ==
    /\ item[n].put # "failed"
    /\ \A k \in 1..Len(item[n].errors) : item[n].errors[k] # "Conversion failed"

\* C7: a failure of one item is an error of that item only.  With cleanup
\* off only failure handling deletes files, so an item that had no
\* conversion failure and no failed put of its own ends without error
C7_FailureIsolation ==
    \A n \in RunItems :
        (Terminal(n) /\ ~config.cleanup_on_success /\ NoOwnFault(n))
        => item[n].errors = <<>>

\* the workers that wrote or deleted a path during this run
WritersOf(path) == {o[1] : o \in {x \in fs_ops : x[2] = path}}

\* C10: no two workers ever write or delete the same filesystem path
C10_NoSharedPath ==
    \A o \in fs_ops : Cardinality(WritersOf(o[2])) <= 1

\* C6: in a dry run no remote put is made, the bucket and the ledger stay
\* as they were when the run began, no batch ledger write is issued, and
\* every item that converted ends counted as uploaded
C6_DryRunNoSideEffects ==
    (run >= 1 /\ ~s3_client(config)) =>
        /\ \A n \in RunItems : item[n].put = "none"
        /\ remote = remote_at_start
        /\ ledger = ledger_at_start
        /\ batch_log = <<>>
        /\ \A n \in RunItems :
            (Terminal(n) /\ item[n].converted = 1) => item[n].uploaded = 1

\* a dry run with two workers ends with two items counted as uploaded
C6_Witness ==
    /\ mpc = "done" /\ ~s3_client(config) /\ config.max_workers = 2
    /\ results.uploaded = 2

\* the threads that are inside a ledger store access
InStore == {t \in Threads : tcall[t].st = "in_store"}

\* C8: every ledger operation touches the backing store only while it
\* holds the ledger lock, so at most one thread is inside a store access
C8_LedgerMutex ==
    /\ Cardinality(InStore) <= 1
    /\ \A t \in InStore : db_lock = t

\* a writer is inside the store while another caller waits for the lock
C8_Witness ==
    \E t \in HThreads, u \in HThreads :
        /\ tcall[t].st = "in_store" /\ IsWrite(tcall[t].op)
        /\ tcall[u].st = "wait" /\ tcall[u].op = "batch_check_uploaded"

\* C9: once an earlier real run uploaded id X and its batch ledger write
\* committed, a later run does nothing for a file resolving to X beyond the
\* ledger check: no conversion, no remote put, no counter changed
C9_RepeatedInvocation ==
    \A n \in RunItems :
        (mpc \in {"collect", "batch"} /\ CardIdOf(n) \in marked_before)
        => Untouched(n)

\* a second run skips a file whose id the first run uploaded and recorded
C9_Witness ==
    /\ run = 2 /\ mpc = "batch"
    /\ \E n \in RunItems :
        /\ CardIdOf(n) \in marked_before
        /\ JpgOf(n) \in remote_at_start
        /\ item[n].pc = "collected"

\* the sum of f over the items of S
RECURSIVE SumOver(_, _)
SumOver(f, S) ==
    IF S = {} THEN 0
    ELSE LET n == CHOOSE x \in S : TRUE IN f[n] + SumOver(f, S \ {n})

ItemErrorCount == [n \in Names |-> Len(item[n].errors)]
ItemProcessed == [n \in Names |-> item[n].processed]
ItemConverted == [n \in Names |-> item[n].converted]
ItemUploaded == [n \in Names |-> item[n].uploaded]
ItemCleaned == [n \in Names |-> item[n].cleaned]

\* C11: when the deferred batch ledger write raises, the summary holds the
\* items' error strings and nothing more, every counter is the sum of the
\* items' counters, the exit code depends on the items' errors only, every
\* object put during the run is still in the bucket, and the ledger has no
\* new row
C11_BatchWriteFailure ==
    (mpc = "done" /\ batch_write = "raised") =>
        /\ Len(results.errors) = SumOver(ItemErrorCount, RunItems)
        /\ results.processed = SumOver(ItemProcessed, RunItems)
        /\ results.converted = SumOver(ItemConverted, RunItems)
        /\ results.uploaded = SumOver(ItemUploaded, RunItems)
        /\ results.cleaned = SumOver(ItemCleaned, RunItems)
        /\ exit_code = (IF \A n \in RunItems : item[n].errors = <<>> THEN 0 ELSE 1)
        /\ remote_at_start \subseteq remote
        /\ \A n \in UploadedItems : JpgOf(n) \in remote
        /\ ledger = ledger_at_start

\* a second run puts again an object that the first run had stored without
\* a ledger row, its own batch write raises too, and it still exits with 0
C11_Witness ==
    /\ run = 2 /\ mpc = "done" /\ batch_write = "raised" /\ exit_code = 0
    /\ \E n \in RunItems :
        /\ item[n].put = "ok"
        /\ JpgOf(n) \in remote_at_start
        /\ ~InLedgerAtStart(n)

C13_NoCleanupKeepsFiles ==
    /\ \A n \in RunItems :
        (/\ Terminal(n) /\ ~config.cleanup_on_success
         /\ s3_client(config) /\ item[n].put = "ok")
        => /\ n \in disk
           /\ JpgOf(n) \in disk
           /\ item[n].cleaned = 0
    /\ (mpc = "done" /\ ~config.cleanup_on_success) => results.cleaned = 0

\* C14: with cleanup enabled, once an item that reached Uploaded is
\* complete its source file is gone, and at the end of the run its converted
\* file is on disk exactly when keep-converted is set
C14_CleanupRemoves ==
    \A n \in RunItems :
        (/\ Terminal(n) /\ config.cleanup_on_success /\ item[n].uploaded = 1)
        => /\ n \notin disk
           /\ mpc = "done" => (JpgOf(n) \in disk <=> config.keep_converted)

\* C15: an item whose cleanup raised (an unlink() inside cleanup_files
\* failed) is complete with uploaded = 1, cleaned = 1 and no error string;
\* the summary's error list holds the items' error strings only, and the
\* exit code depends on those alone
C15_CleanupFailureSwallowed ==
    /\ \A n \in RunItems : item[n].cleanup_raised =>
        /\ Terminal(n)
        /\ item[n].errors = <<>>
        /\ item[n].uploaded = 1 /\ item[n].cleaned = 1
    /\ mpc = "done" =>
        /\ Len(results.errors) = SumOver(ItemErrorCount, RunItems)
        /\ exit_code = (IF \A n \in RunItems : item[n].errors = <<>> THEN 0 ELSE 1)

\* a run in which an unlink() of cleanup_files raised ends with exit code 0
C15_Witness ==
    /\ mpc = "done" /\ exit_code = 0 /\ results.errors = <<>>
    /\ \E n \in RunItems : item[n].cleanup_raised /\ item[n].pc = "collected"

\* C16: for every candidate file name the remote object key is the ledger
\* key with ".jpg" appended, and for a name that does not match the pregen
\* pattern the id is the file's stem
C16_KeyIsIdPlusSuffix ==
    derived # NoDerived =>
        /\ derived.object_key = derived.card_id \o <<".jpg">>
        /\ ~derived.matched => derived.card_id = Stem(derived.name)

RowsOf(l, card_id) == {r \in l : r.card_id = card_id}
OtherRows(l, ids) == {r \in l : r.card_id \notin ids}

\* two callers have each completed the same committed write, and no other
\* call was made
BothWrote(t, u, op) ==
    /\ t # u /\ calls = 2
    /\ tcall[t].op = op /\ tcall[u].op = op
    /\ tcall[t].st = "returned" /\ tcall[u].st = "returned"
    /\ ~tcall[t].raised /\ ~tcall[u].raised
    /\ tcall[t].card_id = tcall[u].card_id
    /\ tcall[t].card_ids = tcall[u].card_ids

\* the ledger l after the write call c is applied twice in a row
Twice(l, c) == LedgerAfter(LedgerAfter(l, c, clock + 1), c, clock + 2)

\* C17: after mark_uploaded(id) was called twice the ledger has exactly one
\* row for id, with status 'uploaded' and the timestamp of the later call,
\* and every other row is as before; the same for batch_mark_uploaded
\* called twice with the same list, for each id of the list.  Stated for two
\* completed calls of the callers, and for a double application to every
\* ledger that is reached
C17_MarkTwice ==
    /\ \A t \in HThreads, u \in HThreads :
        BothWrote(t, u, "mark_uploaded") =>
            /\ RowsOf(ledger, tcall[t].card_id) = {UploadedRow(tcall[t].card_id, clock)}
            /\ clock = 2
            /\ OtherRows(ledger, {tcall[t].card_id})
                 = OtherRows(ledger_at_start, {tcall[t].card_id})
    /\ \A t \in HThreads, u \in HThreads :
        (BothWrote(t, u, "batch_mark_uploaded") /\ tcall[t].card_ids # <<>>) =>
            /\ \A c \in SeqRange(tcall[t].card_ids) :
                    RowsOf(ledger, c) = {UploadedRow(c, clock)}
            /\ clock = 2
            /\ OtherRows(ledger, SeqRange(tcall[t].card_ids))
                 = OtherRows(ledger_at_start, SeqRange(tcall[t].card_ids))
    /\ \A c \in CardIds :
        LET l2 == Twice(ledger, NewCall("mark_uploaded", c, <<>>))
        IN  /\ RowsOf(l2, c) = {UploadedRow(c, clock + 2)}
            /\ OtherRows(l2, {c}) = OtherRows(ledger, {c})
    /\ \A ids \in HLists :
        LET l2 == Twice(ledger, NewCall("batch_mark_uploaded", <<>>, ids))
        IN  /\ \A c \in SeqRange(ids) : RowsOf(l2, c) = {UploadedRow(c, clock + 2)}
            /\ OtherRows(l2, SeqRange(ids)) = OtherRows(ledger, SeqRange(ids))

\* two callers have both marked an id that already had a row, beside a row
\* of another id
C17_Witness ==
    \E t \in HThreads, u \in HThreads :
        /\ BothWrote(t, u, "mark_uploaded")
        /\ RowsOf(ledger_at_start, tcall[t].card_id) # {}
        /\ OtherRows(ledger_at_start, {tcall[t].card_id}) # {}

\* the terminal states whose description fits the outcome of item n
OutcomesOf(n) ==
    LET r == item[n]
    IN  {o \in {"SkippedAlreadyUploaded", "ConversionFailed", "UploadFailed",
                "Cleaned", "Kept"} :
            \/ o = "SkippedAlreadyUploaded" /\ r.processed = 0 /\ r.errors = <<>>
            \/ o = "ConversionFailed" /\ r.processed = 1 /\ r.converted = 0
                                      /\ r.errors = <<"Conversion failed">>
            \/ o = "UploadFailed" /\ r.converted = 1 /\ r.uploaded = 0
                                  /\ r.errors # <<>> /\ r.errors[1] = "Upload failed"
            \/ o = "Cleaned" /\ r.uploaded = 1 /\ r.cleaned = 1 /\ r.errors = <<>>
            \/ o = "Kept" /\ r.uploaded = 1 /\ r.cleaned = 0 /\ r.errors = <<>>}

AllComplete ==
    \A n \in RunItems : item[n].pc = "collected" /\ Cardinality(OutcomesOf(n)) = 1

\* C18: when the threads are scheduled fairly, no invocation stays inside
\* process_images for ever (it always returns), when it has returned every
\* discovered item is complete in exactly one terminal state, and the
\* ledger lock is always released again
C18_Termination ==
    /\ []<>(mpc \notin {"collect", "batch"})
    /\ [](mpc = "done" => AllComplete)
    /\ []<>(db_lock = NoHolder)

\* a run of two tasks on one worker has returned, one item skipped and the
\* other failed in conversion
C18_Witness ==
    /\ mpc = "done" /\ config.max_workers = 1 /\ AllComplete
    /\ \E n \in RunItems, m \in RunItems :
        /\ OutcomesOf(n) = {"SkippedAlreadyUploaded"}
        /\ OutcomesOf(m) = {"ConversionFailed"}

\* C19: within a run the ledger keeps the rows it had at the start of the
\* run until every item has been collected; the batch write is entered only
\* then and is the run's only write (all rows written carry its one
\* timestamp); so every is_uploaded check of a worker answers from the
\* ledger of the start of the run
C19_DeferredWrite ==
    /\ ledger # ledger_at_start =>
        /\ mpc \in {"batch", "done"}
        /\ \A n \in RunItems : item[n].pc = "collected"
        /\ \A r \in RowsWritten : r.timestamp = clock
    /\ tcall[Main].op = "batch_mark_uploaded" =>
        \A n \in RunItems : item[n].pc = "collected"
    /\ \A n \in Names :
        (tcall[n].op = "is_uploaded" /\ tcall[n].st = "returned") =>
            tcall[n].found = (\E r \in ledger_at_start :
                                r.card_id = tcall[n].card_id /\ r.status = "uploaded")

\* the batch write of a run with two workers has just committed the rows
\* of two uploaded items
C19_Witness ==
    /\ mpc = "batch" /\ tcall[Main].st = "returned" /\ ~tcall[Main].raised
    /\ config.max_workers = 2
    /\ Cardinality(RowsWritten) = 2

\* C20: every item's outcome has 0 <= cleaned <= uploaded <= converted <=
\* processed <= 1 at every moment, an outcome with an error string has
\* uploaded = 0 and cleaned = 0, and the aggregate has cleaned <= uploaded
\* <= converted <= processed <= number of discovered candidates after each
\* collected result
C20_CounterChain ==
    /\ \A n \in Names :
        /\ 0 <= item[n].cleaned /\ item[n].cleaned <= item[n].uploaded
        /\ item[n].uploaded <= item[n].converted
        /\ item[n].converted <= item[n].processed
        /\ item[n].processed <= 1
        /\ item[n].errors # <<>> => (item[n].uploaded = 0 /\ item[n].cleaned = 0)
    /\ 0 <= results.cleaned /\ results.cleaned <= results.uploaded
    /\ results.uploaded <= results.converted
    /\ results.converted <= results.processed
    /\ results.processed <= Cardinality(RunItems)

\* the aggregate of a finished run has four different stages: two items
\* processed and converted, one uploaded and cleaned, one error
C20_Witness ==
    /\ mpc = "done" /\ config.max_workers = 2
    /\ results.processed = 2 /\ results.converted = 2
    /\ results.uploaded = 1 /\ results.cleaned = 1
    /\ Len(results.errors) = 1

\* the item ended without reaching Uploaded: it was skipped, its conversion
\* failed, its upload failed, or an unexpected exception was recorded
NotUploaded(n) == Terminal(n) /\ item[n].uploaded = 0

\* C21: every row that a run adds to the ledger or rewrites has the id of
\* an item whose remote put returned success in that run, and no row is
\* written for the id of an item that was skipped, failed in conversion or
\* upload, or ran in a dry run
C21_LedgerSoundness ==
    /\ \A r \in RowsWritten : r.card_id \in UploadedIds
    /\ \A n \in RunItems :
        (NotUploaded(n) \/ ~s3_client(config)) =>
            \A r \in RowsWritten : r.card_id # CardIdOf(n)

====
